---- MODULE Spec2Model ----
(***************************************************************************)
(* QuadstateRenewals.py: the "Process" action of the renewal processor.    *)
(*                                                                         *)
(* process_excel loads a (possibly encrypted) workbook with               *)
(* read_excel_file, validates its columns with check_required_columns,     *)
(* reshapes and sorts the DataFrame and writes it with export_to_excel.    *)
(* The program is single threaded; one variable, pc, is the position of    *)
(* the one running callback.  Positions in sequences are 1-based here      *)
(* where Python counts from 0.                                             *)
(***************************************************************************)
EXTENDS Integers, Sequences, FiniteSets

----------------------------------------------------------------------------
(* Bounds of the model *)

MaxRows == 2

MaxDropped == 2

MaxRuns == 2

----------------------------------------------------------------------------
(* Column lists of the program *)

required_columns ==
    << "Expiration Date", "Insured", "Carrier", "Lines Of Business",
       "Status", "Premium", "Renewal Premium", "Percentage Change" >>

SelectedColumns ==
    << "Expiration Date", "Insured Name", "Carrier", "Lines Of Business",
       "Status", "Premium", "Renewal Premium", "Percentage Change" >>

WorkflowColumns ==
    << "State", "Contacted VIA", "Notes Filed", "Completed By" >>

----------------------------------------------------------------------------
(* Input workbooks.  A workbook's header is drawn from FileColumnOrder     *)
(* with at most MaxDropped of the names in DroppableColumns left out, so   *)
(* that headers lacking two required names occur.  Every data cell holds   *)
(* "x", except the Expiration Date cells, which hold a date or a text.  The *)
(* text is one that pd.read_excel, called with its defaults, keeps as a    *)
(* string (it is not one of the default na_values such as "n/a" or "NA",  *)
(* which arrive as missing values).                                        *)

FileColumnOrder ==
    required_columns \o << "Insured Name", "State", "carrier" >>

TxtDate == "TBD"

DateValues == << "2024-01-15", "2024-03-10" >>

CellValues == {DateValues[i] : i \in 1..Len(DateValues)} \cup {TxtDate}

Range(s) == {s[i] : i \in 1..Len(s)}

\* the names a workbook's header may lack: three of the required names (the
\* code treats every required name alike, `col not in df.columns`) and the
\* three names that are not required
DroppableColumns ==
    {"Insured", "Carrier", "Status", "Insured Name", "State", "carrier"}

ColumnSets ==
    {Range(FileColumnOrder) \ D : D \in
        {X \in SUBSET DroppableColumns : Cardinality(X) <= MaxDropped}}

DateSeqs == UNION {[1..n -> CellValues] : n \in 0..MaxRows}

MakeData(colset, dates) ==
    LET cols == SelectSeq(FileColumnOrder, LAMBDA c : c \in colset)
    IN  [cols |-> cols,
         rows |-> [i \in 1..Len(dates) |->
                     [idx   |-> i,
                      cells |-> [c \in 1..Len(cols) |->
                                   IF cols[c] = "Expiration Date"
                                   THEN dates[i] ELSE "x"]]]]

Workbooks == {MakeData(cs, ds) : cs \in ColumnSets, ds \in DateSeqs}

NoData == [cols |-> << >>, rows |-> << >>]

----------------------------------------------------------------------------
(* DataFrame operations *)

RECURSIVE PositionsFrom(_, _, _)
PositionsFrom(cols, name, p) ==
    IF p > Len(cols) THEN << >>
    ELSE (IF cols[p] = name THEN << p >> ELSE << >>)
         \o PositionsFrom(cols, name, p + 1)

\* every position of the label `name` in the column index
Positions(cols, name) == PositionsFrom(cols, name, 1)

\* df.columns.get_loc(name) for a label that occurs once
get_loc(cols, name) == Positions(cols, name)[1]

HasDuplicates(cols) ==
    \E i, j \in 1..Len(cols) : i < j /\ cols[i] = cols[j]

\* df.rename(columns={old: new}, inplace=True)
Rename(d, old, new) ==
    [d EXCEPT !.cols = [c \in 1..Len(d.cols) |->
                          IF d.cols[c] = old THEN new ELSE d.cols[c]]]

RECURSIVE PositionsOfAll(_, _, _)
PositionsOfAll(cols, names, k) ==
    IF k > Len(names) THEN << >>
    ELSE Positions(cols, names[k]) \o PositionsOfAll(cols, names, k + 1)

GetItemKeepAll(d, names) == d

\* df[[names]]: the columns carrying each label, in the order of the list
GetItem(d, names) ==
    LET pos == PositionsOfAll(d.cols, names, 1)
    IN  [cols |-> [k \in 1..Len(pos) |-> d.cols[pos[k]]],
         rows |-> [r \in 1..Len(d.rows) |->
                     [idx   |-> d.rows[r].idx,
                      cells |-> [k \in 1..Len(pos) |->
                                   d.rows[r].cells[pos[k]]]]]]

\* df[name] = value
SetColumn(d, name, value) ==
    IF Positions(d.cols, name) # << >>
    THEN [d EXCEPT !.rows = [r \in 1..Len(d.rows) |->
            [d.rows[r] EXCEPT !.cells = [c \in 1..Len(d.cols) |->
                IF d.cols[c] = name THEN value ELSE d.rows[r].cells[c]]]]]
    ELSE [cols |-> Append(d.cols, name),
          rows |-> [r \in 1..Len(d.rows) |->
                      [d.rows[r] EXCEPT !.cells = Append(@, value)]]]

RECURSIVE AddWorkflow(_, _, _)
AddWorkflow(d, names, k) ==
    IF k > Len(names) THEN d
    ELSE AddWorkflow(SetColumn(d, names[k], ""), names, k + 1)

\* lines 322-328 of process_excel
Reshape(d) ==
    AddWorkflow(GetItem(Rename(d, "Insured", "Insured Name"), SelectedColumns),
                WorkflowColumns, 1)

----------------------------------------------------------------------------
(* Sorting.  DataFrame.sort_values is called with its default kind,        *)
(* 'quicksort', which pandas documents as not stable: the result is some   *)
(* arrangement of the rows in ascending key order, and the order of rows   *)
(* with equal keys is not determined by the call.  Comparing a text with a *)
(* date raises TypeError.                                                   *)

Rank(v) ==
    IF v = TxtDate THEN 0
    ELSE CHOOSE i \in 1..Len(DateValues) : DateValues[i] = v

DateOf(d, r) == d.rows[r].cells[get_loc(d.cols, "Expiration Date")]

MixedTypes(d) ==
    \E r, s \in 1..Len(d.rows) : DateOf(d, r) = TxtDate /\ DateOf(d, s) # TxtDate

\* ascending=True, the default
KeyOrder(a, b) == Rank(a) <= Rank(b)

Permutations(n) ==
    {p \in [1..n -> 1..n] : \A i, j \in 1..n : i # j => p[i] # p[j]}

SortedOrders(d) ==
    {p \in Permutations(Len(d.rows)) :
        \A i, j \in 1..Len(d.rows) :
            i < j => KeyOrder(DateOf(d, p[i]), DateOf(d, p[j]))}

\* the rows of d taken in the order p
Take(d, p) == [d EXCEPT !.rows = [i \in 1..Len(p) |-> d.rows[p[i]]]]

----------------------------------------------------------------------------
(* check_required_columns *)

MissingColumns(d, required) ==
    SelectSeq(required, LAMBDA c : c \notin Range(d.cols))

AcceptAnyColumns(d, required) == TRUE

check_required_columns(d, required) == MissingColumns(d, required) = << >>

----------------------------------------------------------------------------
(* export_to_excel: the worksheet is the map from <<row, column>> to the   *)
(* value last written there; row 0 is the header.                          *)

Overwrite(sheet, new) ==
    [p \in DOMAIN sheet \cup DOMAIN new |->
        IF p \in DOMAIN new THEN new[p] ELSE sheet[p]]

\* df.to_excel(writer, index=False)
ToExcel(d) ==
    [p \in (0..Len(d.rows)) \X (1..Len(d.cols)) |->
        IF p[1] = 0 THEN d.cols[p[2]] ELSE d.rows[p[1]].cells[p[2]]]

HeaderPass(d) ==
    [p \in {0} \X (1..Len(d.cols)) |-> d.cols[p[2]]]

CenterPass(d) ==
    LET notes_col_index == get_loc(d.cols, "Notes Filed")
        contacted_via_col_index == get_loc(d.cols, "Contacted VIA")
    IN  [p \in (1..Len(d.rows)) \X {notes_col_index, contacted_via_col_index}
            |-> d.rows[p[1]].cells[p[2]]]

GreyPass(d) ==
    [p \in {r \in 1..Len(d.rows) : r % 2 = 1} \X (1..Len(d.cols)) |->
        d.rows[p[1]].cells[p[2]]]

Worksheet(d) ==
    Overwrite(Overwrite(Overwrite(ToExcel(d), HeaderPass(d)),
                        CenterPass(d)), GreyPass(d))

\* the column-width loop indexes df[column]; a repeated label makes it a
\* frame, and max() over its column maxima raises
WriteRaises(d) == HasDuplicates(d.cols)

EmptySheet == [p \in {} |-> ""]

----------------------------------------------------------------------------
(* The environment of a run *)

NoPassword == ""

\* values of EXCEL_PASSWORD and QUADSTATE_PASSWORD: unset (or empty), the
\* passphrase of the workbook, or another one
PasswordValues == {NoPassword, "good", "bad"}

FileKinds == {"missing", "plain", "encrypted", "corrupt"}

\* os.getenv('EXCEL_PASSWORD') or os.getenv('QUADSTATE_PASSWORD') or None
EffectivePassword(e, q) == IF e # NoPassword THEN e ELSE q

PasswordStatus(e, q) ==
    IF e # NoPassword
    THEN "Ready - Using password from EXCEL_PASSWORD environment variable"
    ELSE IF q # NoPassword
    THEN "Ready - Using password from QUADSTATE_PASSWORD environment variable"
    ELSE "Warning - No password found in environment variables"

\* why a load of this file with this passphrase cannot succeed
Cause(kind, pw) ==
    CASE kind = "missing" -> "missing file"
      [] kind = "corrupt" -> "corrupt format"
      [] kind = "encrypted" /\ pw # "good" -> "wrong passphrase"
      [] kind = "plain" /\ pw # NoPassword -> "passphrase on plain file"
      [] OTHER -> "none"

TriesDirectAlways(pw) == TRUE

\* `if not password:` guards the direct read
TriesDirect(pw) == pw = NoPassword

\* pd.read_excel(file_path, engine='openpyxl') reads only a plain workbook
DirectReadable(kind) == kind = "plain"

\* The msoffcrypto block up to the end of `with open(file_path, 'rb')`;
\* available says whether `import msoffcrypto` succeeds, temp whether
\* temp_file_path was opened for writing, raised whether an exception left
\* the block, good whether a workbook was written.  A missing file fails in
\* open(), a corrupt one in OfficeFile(); a wrong passphrase fails in
\* load_key(), which runs before temp_file_path is opened, or in decrypt(),
\* or yields bytes that are no workbook; without a key, or on a plain
\* workbook, load_key() or decrypt() raises.
DecryptOutcomes(kind, pw, available) ==
    IF ~available \/ kind \in {"missing", "corrupt"}
    THEN {[temp |-> FALSE, raised |-> TRUE, good |-> FALSE]}
    ELSE IF kind = "encrypted" /\ pw = "good"
    THEN {[temp |-> TRUE, raised |-> FALSE, good |-> TRUE]}
    ELSE IF kind = "encrypted" /\ pw = "bad"
    THEN {[temp |-> FALSE, raised |-> TRUE, good |-> FALSE],
          [temp |-> TRUE, raised |-> TRUE, good |-> FALSE],
          [temp |-> TRUE, raised |-> FALSE, good |-> FALSE]}
    ELSE {[temp |-> TRUE, raised |-> TRUE, good |-> FALSE],
          [temp |-> FALSE, raised |-> TRUE, good |-> FALSE]}

CleanupSkipped(exists, removable) == [temp |-> exists, warned |-> FALSE]

\* the finally block of read_excel_file
Cleanup(exists, removable) ==
    IF exists
    THEN [temp |-> ~removable, warned |-> ~removable]
    ELSE [temp |-> FALSE, warned |-> FALSE]

TryCoversExport(position) ==
    position \in {"export_open", "export_write", "export_close", "finish"}

\* the statements of process_excel inside its try block
TryCovers(position) ==
    position \in {"read_direct", "temp_path", "decrypt", "read_temp",
                  "cleanup", "returned", "validate", "transform",
                  "export_open", "export_write", "export_close", "finish"}

----------------------------------------------------------------------------
VARIABLES
    pc,             \* position of the running callback, "idle" when none
    window,         \* "open" or "destroyed" (root)
    progress,       \* progress_var
    status,         \* status_var
    count_label,    \* the number shown by count_label
    escaped,        \* an exception has left process_excel
    fileKind,       \* what lies at source_var's path
    excelPw,        \* EXCEL_PASSWORD
    quadPw,         \* QUADSTATE_PASSWORD
    tempSet,        \* TEMP is set
    password,       \* process_excel's password
    attempts,       \* the read paths read_excel_file has tried, in order
    pending,        \* the value read_excel_file is about to return
    loaderOutcome,  \* "pending", "df", "None" or "raised"
    tempFile,       \* a file exists at the temp_file_path of this second
    tempGood,       \* that file is a readable workbook
    warned,         \* this run logged 'Could not remove temporary file'
    source,         \* the DataFrame as read_excel_file returned it
    df,             \* process_excel's df
    check_ret,      \* the values check_required_columns returned
    missing_logged, \* the missing_columns it logged
    sheet,          \* the worksheet of the writer
    outFile,        \* the file at the output_file_path of this second:
                    \* "absent", "partial" or "complete"
    runs,           \* number of times Process was pressed
    results,        \* <<cause, outcome>> of every read_excel_file call so far
    excel,          \* open_protected_excel's Excel: "None", "running", "quit"
    workbook,       \* its wb: "unbound", "None", "open" or "closed"
    props,          \* the Excel properties it managed to set
    bridge_ret,     \* its result: "pending", "True", "False" or "raised"
    quit_raised     \* excel.Quit() raised in its finally block

loaderVars == << attempts, pending, loaderOutcome, tempFile, tempGood, warned,
                 source, results >>

envVars == << fileKind, excelPw, quadPw, tempSet >>

uiVars == << window, progress, status, count_label >>

bridgeVars == << excel, workbook, props, bridge_ret, quit_raised >>

vars == << pc, window, progress, status, count_label, escaped, fileKind,
           excelPw, quadPw, tempSet, password, attempts, pending,
           loaderOutcome, tempFile, tempGood, warned, source, df, check_ret,
           missing_logged, sheet, outFile, runs, results, excel, workbook,
           props, bridge_ret, quit_raised >>

Init ==
    /\ pc = "idle"
    /\ window = "open"
    /\ progress = 0
    /\ status = "Ready - Password loaded from environment"
    /\ count_label = 0
    /\ escaped = FALSE
    /\ fileKind \in FileKinds
    /\ excelPw \in PasswordValues
    /\ quadPw \in PasswordValues
    /\ tempSet \in BOOLEAN
    /\ password = NoPassword
    /\ attempts = << >>
    /\ pending = "None"
    /\ loaderOutcome = "pending"
    /\ tempFile = FALSE
    /\ tempGood = FALSE
    /\ warned = FALSE
    /\ source = NoData
    /\ df = NoData
    /\ check_ret = << >>
    /\ missing_logged = << >>
    /\ sheet = EmptySheet
    /\ outFile = "absent"
    /\ runs = 0
    /\ results = {}
    /\ excel = "None"
    /\ workbook = "unbound"
    /\ props = {}
    /\ bridge_ret = "pending"
    /\ quit_raised = FALSE

\* an exception raised at the current position
Raise ==
    /\ pc' = IF TryCovers(pc) THEN "except" ELSE "idle"
    /\ escaped' = (escaped \/ ~TryCovers(pc))

\* select_source_file: the dialog returned a path
select_source_file ==
    /\ pc = "idle"
    /\ window = "open"
    /\ \E k \in FileKinds : k # fileKind /\ fileKind' = k
    /\ UNCHANGED << bridgeVars, pc, window, progress, status, count_label, escaped,
                    excelPw, quadPw, tempSet, password, attempts,
                    pending, loaderOutcome, tempFile, tempGood, warned,
                    source, df, check_ret, missing_logged, sheet, outFile,
                    runs, results >>

\* process_excel up to its try.  temp_file_path and output_file_path are
\* built from the clock at a resolution of one second (int(time.time()),
\* time.strftime('%Y%m%d-%H%M%S')): a run in the second of the run before
\* it names the files that run left behind, a later one names new files.
Process ==
    /\ pc = "idle"
    /\ window = "open"
    /\ runs < MaxRuns
    /\ runs' = runs + 1
    /\ progress' = 10
    /\ password' = EffectivePassword(excelPw, quadPw)
    /\ status' = PasswordStatus(excelPw, quadPw)
    /\ attempts' = << >>
    /\ pending' = "None"
    /\ loaderOutcome' = "pending"
    /\ \E same_temp_name, same_output_name \in BOOLEAN :
          /\ tempFile' = (same_temp_name /\ tempFile)
          /\ tempGood' = (same_temp_name /\ tempGood)
          /\ outFile' = IF same_output_name THEN outFile ELSE "absent"
    /\ warned' = FALSE
    /\ source' = NoData
    /\ df' = NoData
    /\ check_ret' = << >>
    /\ missing_logged' = << >>
    /\ sheet' = EmptySheet
    /\ pc' = "read_direct"
    /\ UNCHANGED << bridgeVars, window, count_label, escaped, envVars, results >>

\* read_excel_file: the direct read
ReadDirect ==
    /\ pc = "read_direct"
    /\ IF TriesDirect(password)
       THEN /\ attempts' = Append(attempts, "direct")
            /\ IF DirectReadable(fileKind)
               THEN /\ \E w \in Workbooks : source' = w /\ df' = w
                    /\ loaderOutcome' = "df"
                    /\ results' = results \cup
                                    {<< Cause(fileKind, password), "df" >>}
                    /\ pc' = "returned"
               ELSE /\ pc' = "temp_path"
                    /\ UNCHANGED << source, df, loaderOutcome, results >>
       ELSE /\ pc' = "temp_path"
            /\ UNCHANGED << attempts, source, df, loaderOutcome, results >>
    /\ UNCHANGED << bridgeVars, uiVars, escaped, envVars, password, pending, tempFile,
                    tempGood, warned, check_ret, missing_logged, sheet,
                    outFile, runs >>

\* temp_file_path = os.path.join(os.environ.get('TEMP'), ...)
TempPath ==
    /\ pc = "temp_path"
    /\ IF tempSet
       THEN /\ pc' = "decrypt"
            /\ UNCHANGED << escaped, loaderOutcome, results >>
       ELSE /\ Raise
            /\ loaderOutcome' = "raised"
            /\ results' = results \cup
                            {<< Cause(fileKind, password), "raised" >>}
    /\ UNCHANGED << bridgeVars, uiVars, envVars, password, attempts, pending, tempFile,
                    tempGood, warned, source, df, check_ret, missing_logged,
                    sheet, outFile, runs >>

\* the msoffcrypto block; a file already at temp_file_path stays as it is
\* unless the block opens it for writing
Decrypt ==
    /\ pc = "decrypt"
    /\ attempts' = Append(attempts, "msoffcrypto")
    /\ \E available \in BOOLEAN :
       \E o \in DecryptOutcomes(fileKind, password, available) :
          /\ tempFile' = (tempFile \/ o.temp)
          /\ tempGood' = IF o.temp THEN o.good ELSE tempGood
          /\ pc' = IF o.raised THEN "cleanup" ELSE "read_temp"
    /\ UNCHANGED << bridgeVars, uiVars, escaped, envVars, password, pending,
                    loaderOutcome, warned, source, df, check_ret,
                    missing_logged, sheet, outFile, runs, results >>

\* df = pd.read_excel(temp_file_path, engine='openpyxl')
ReadTemp ==
    /\ pc = "read_temp"
    /\ IF tempGood
       THEN /\ \E w \in Workbooks : source' = w /\ df' = w
            /\ pending' = "df"
       ELSE UNCHANGED << source, df, pending >>
    /\ pc' = "cleanup"
    /\ UNCHANGED << bridgeVars, uiVars, escaped, envVars, password, attempts,
                    loaderOutcome, tempFile, tempGood, warned, check_ret,
                    missing_logged, sheet, outFile, runs, results >>

\* the finally block, then the return
CleanupAndReturn ==
    /\ pc = "cleanup"
    /\ \E removable \in BOOLEAN :
          /\ tempFile' = Cleanup(tempFile, removable).temp
          /\ warned' = Cleanup(tempFile, removable).warned
    /\ loaderOutcome' = pending
    /\ results' = results \cup {<< Cause(fileKind, password), pending >>}
    /\ pc' = "returned"
    /\ UNCHANGED << bridgeVars, uiVars, escaped, envVars, password, attempts, pending,
                    tempGood, source, df, check_ret, missing_logged, sheet,
                    outFile, runs >>

\* `if df is None:` after the call
AfterLoad ==
    /\ pc = "returned"
    /\ IF loaderOutcome = "None"
       THEN /\ status' = "Error - Incorrect password or file cannot be read"
            /\ progress' = 0
            /\ pc' = "return"
       ELSE /\ progress' = 30
            /\ pc' = "validate"
            /\ UNCHANGED status
    /\ UNCHANGED << bridgeVars, window, count_label, escaped, envVars, password,
                    loaderVars, df, check_ret, missing_logged, sheet,
                    outFile, runs >>

\* the call of check_required_columns and the branch on its result
Validate ==
    /\ pc = "validate"
    /\ check_ret' = << check_required_columns(df, required_columns) >>
    /\ missing_logged' = MissingColumns(df, required_columns)
    /\ IF check_required_columns(df, required_columns)
       THEN /\ progress' = 50
            /\ status' = "Processing - Preparing data..."
            /\ pc' = "transform"
       ELSE /\ status' = "Error - Missing required columns in Excel file"
            /\ progress' = 0
            /\ pc' = "return"
    /\ UNCHANGED << bridgeVars, window, count_label, escaped, envVars, password,
                    loaderVars, df, sheet, outFile, runs >>

\* rename, select, add the workflow columns, sort
Transform ==
    /\ pc = "transform"
    /\ status' = "Processing - Sorting data and creating Excel file..."
    /\ IF MixedTypes(Reshape(df))
       THEN /\ df' = Reshape(df)
            /\ progress' = 70
            /\ Raise
       ELSE /\ \E p \in SortedOrders(Reshape(df)) : df' = Take(Reshape(df), p)
            /\ progress' = 85
            /\ pc' = "export_open"
            /\ UNCHANGED escaped
    /\ UNCHANGED << bridgeVars, window, count_label, envVars, password, loaderVars,
                    check_ret, missing_logged, sheet, outFile, runs >>

\* writer = pd.ExcelWriter(output_file_path, engine='xlsxwriter'): it raises
\* when the path cannot be opened; a pandas that opens the file handle in
\* the constructor creates the (empty) file here, one that leaves the path
\* to xlsxwriter creates nothing before close()
ExportOpen ==
    /\ pc = "export_open"
    /\ \E o \in {"raises", "opens the file", "keeps the path"} :
          IF o = "raises"
          THEN Raise /\ UNCHANGED outFile
          ELSE /\ outFile' = IF o = "opens the file" THEN "partial" ELSE outFile
               /\ pc' = "export_write"
               /\ UNCHANGED escaped
    /\ UNCHANGED << bridgeVars, uiVars, envVars, password, loaderVars, df, check_ret,
                    missing_logged, sheet, runs >>

\* to_excel, validations, widths, header and the two rewrite passes
ExportWrite ==
    /\ pc = "export_write"
    /\ IF WriteRaises(df)
       THEN /\ sheet' = ToExcel(df)
            /\ Raise
       ELSE /\ sheet' = Worksheet(df)
            /\ pc' = "export_close"
            /\ UNCHANGED escaped
    /\ UNCHANGED << bridgeVars, uiVars, envVars, password, loaderVars, df, check_ret,
                    missing_logged, outFile, runs >>

\* writer.close(): the file is complete when it returns; when it raises the
\* file is as it was or partly written
ExportClose ==
    /\ pc = "export_close"
    /\ \E ok \in BOOLEAN :
          IF ok
          THEN /\ outFile' = "complete"
               /\ pc' = "finish"
               /\ UNCHANGED escaped
          ELSE /\ outFile' \in {outFile, "partial"}
               /\ Raise
    /\ UNCHANGED << bridgeVars, uiVars, envVars, password, loaderVars, df, check_ret,
                    missing_logged, sheet, runs >>

\* export_to_excel returned True
Finish ==
    /\ pc = "finish"
    /\ progress' = 100
    /\ status' = "Success - Processed records. File saved to Desktop."
    /\ count_label' = Len(df.rows)
    /\ window' = "destroyed"
    /\ pc' = "closed"
    /\ UNCHANGED << bridgeVars, escaped, envVars, password, loaderVars, df, check_ret,
                    missing_logged, sheet, outFile, runs >>

\* except Exception as e
Except ==
    /\ pc = "except"
    /\ progress' = 0
    /\ status' = "Error - exception"
    /\ pc' = "return"
    /\ UNCHANGED << bridgeVars, window, count_label, escaped, envVars, password,
                    loaderVars, df, check_ret, missing_logged, sheet,
                    outFile, runs >>

\* process_excel returns on a failure path: its locals are gone, the window
\* waits for the next event
Return ==
    /\ pc = "return"
    /\ pc' = "idle"
    /\ password' = NoPassword
    /\ attempts' = << >>
    /\ pending' = "None"
    /\ loaderOutcome' = "pending"
    /\ source' = NoData
    /\ df' = NoData
    /\ check_ret' = << >>
    /\ sheet' = EmptySheet
    /\ UNCHANGED << bridgeVars, uiVars, escaped, envVars, tempFile, tempGood, warned,
                    missing_logged, outFile, runs, results >>

Next ==
    \/ select_source_file
    \/ Process
    \/ ReadDirect
    \/ TempPath
    \/ Decrypt
    \/ ReadTemp
    \/ CleanupAndReturn
    \/ AfterLoad
    \/ Validate
    \/ Transform
    \/ ExportOpen
    \/ ExportWrite
    \/ ExportClose
    \/ Finish
    \/ Except
    \/ Return

Spec == Init /\ [][Next]_vars

----------------------------------------------------------------------------
(* open_protected_excel.  No statement of the program calls it, so no     *)
(* behaviour of Spec enters it; SpecBridge is a call of the function on   *)
(* its own, with file_path and password drawn from their domains.         *)

\* excel.Workbooks.Open(file_path, Password=pw), or without a passphrase
\* when pw is NoPassword, returns a workbook
OpensWith(kind, pw) ==
    kind = "plain" \/ (kind = "encrypted" /\ pw = "good")

\* the `if password:` statement: Open with the passphrase, on an exception
\* Open without it, and the first exception again if that fails too
OpenSucceeds(kind, pw) ==
    IF pw # NoPassword
    THEN OpensWith(kind, pw) \/ OpensWith(kind, NoPassword)
    ELSE OpensWith(kind, NoPassword)

\* what the statement leaves in wb, or "raises"; the function provides for
\* Open handing back None, drawn here for a file Excel cannot read
OpenOutcomes(kind, pw) ==
    IF OpenSucceeds(kind, pw) THEN {"open"}
    ELSE IF kind = "corrupt" THEN {"raises", "None"}
    ELSE {"raises"}

FinallyWithoutQuit(app, quits) == [excel |-> app, quit_raised |-> FALSE]

\* the finally block: `if excel:` then excel.Quit() with every exception
\* swallowed; quits says whether Quit() went through
Finally(app, quits) ==
    IF app = "None"
    THEN [excel |-> app, quit_raised |-> FALSE]
    ELSE [excel |-> IF quits THEN "quit" ELSE app, quit_raised |-> ~quits]

pipelineVars == << window, progress, status, count_label, escaped, excelPw,
                   quadPw, tempSet, attempts, pending, loaderOutcome, warned,
                   source, df, check_ret, missing_logged, sheet, outFile,
                   runs, results >>

BridgeInit ==
    /\ pc = "b_cache"
    /\ fileKind \in FileKinds
    /\ password \in PasswordValues
    /\ window = "open"
    /\ progress = 0
    /\ status = "Ready - Password loaded from environment"
    /\ count_label = 0
    /\ escaped = FALSE
    /\ excelPw = NoPassword
    /\ quadPw = NoPassword
    /\ tempSet = TRUE
    /\ attempts = << >>
    /\ pending = "None"
    /\ loaderOutcome = "pending"
    /\ tempFile = FALSE
    /\ tempGood = FALSE
    /\ warned = FALSE
    /\ source = NoData
    /\ df = NoData
    /\ check_ret = << >>
    /\ missing_logged = << >>
    /\ sheet = EmptySheet
    /\ outFile = "absent"
    /\ runs = 0
    /\ results = {}
    /\ excel = "None"
    /\ workbook = "unbound"
    /\ props = {}
    /\ bridge_ret = "pending"
    /\ quit_raised = FALSE

\* clear_com_cache(), called before the try: an exception in it (LOCALAPPDATA
\* unset, rmtree failing) leaves open_protected_excel at once
ClearComCache ==
    /\ pc = "b_cache"
    /\ \E ok \in BOOLEAN :
          IF ok
          THEN pc' = "b_dispatch" /\ UNCHANGED bridge_ret
          ELSE pc' = "b_done" /\ bridge_ret' = "raised"
    /\ UNCHANGED << pipelineVars, fileKind, password, tempFile, tempGood,
                    excel, workbook, props, quit_raised >>

\* excel = win32.Dispatch('Excel.Application')
Dispatch ==
    /\ pc = "b_dispatch"
    /\ \E started \in BOOLEAN :
          IF started
          THEN excel' = "running" /\ pc' = "b_props"
          ELSE pc' = "b_except" /\ UNCHANGED excel
    /\ UNCHANGED << pipelineVars, fileKind, password, tempFile, tempGood,
                    workbook, props, bridge_ret, quit_raised >>

\* DisplayAlerts = False and Visible = False, each in its own try
SetProperties ==
    /\ pc = "b_props"
    /\ props' \in SUBSET {"DisplayAlerts", "Visible"}
    /\ pc' = "b_open"
    /\ UNCHANGED << pipelineVars, fileKind, password, tempFile, tempGood,
                    excel, workbook, bridge_ret, quit_raised >>

\* the Workbooks.Open statement
OpenWorkbook ==
    /\ pc = "b_open"
    /\ \E o \in OpenOutcomes(fileKind, password) :
          IF o = "raises"
          THEN pc' = "b_except" /\ UNCHANGED workbook
          ELSE pc' = "b_check" /\ workbook' = o
    /\ UNCHANGED << pipelineVars, fileKind, password, tempFile, tempGood,
                    excel, props, bridge_ret, quit_raised >>

\* if wb is None: return False
CheckWorkbook ==
    /\ pc = "b_check"
    /\ IF workbook = "None"
       THEN pc' = "b_finally" /\ bridge_ret' = "False"
       ELSE pc' = "b_saveas" /\ UNCHANGED bridge_ret
    /\ UNCHANGED << pipelineVars, fileKind, password, tempFile, tempGood,
                    excel, workbook, props, quit_raised >>

\* wb.SaveAs(temp_file_path, Password='')
SaveAs ==
    /\ pc = "b_saveas"
    /\ \E ok \in BOOLEAN :
          IF ok
          THEN /\ tempFile' = TRUE
               /\ tempGood' = TRUE
               /\ pc' = "b_close"
          ELSE /\ pc' = "b_except"
               /\ UNCHANGED << tempFile, tempGood >>
    /\ UNCHANGED << pipelineVars, fileKind, password, excel, workbook, props,
                    bridge_ret, quit_raised >>

\* wb.Close(SaveChanges=True) and return True
CloseWorkbook ==
    /\ pc = "b_close"
    /\ \E ok \in BOOLEAN :
          IF ok
          THEN /\ workbook' = "closed"
               /\ bridge_ret' = "True"
               /\ pc' = "b_finally"
          ELSE /\ pc' = "b_except"
               /\ UNCHANGED << workbook, bridge_ret >>
    /\ UNCHANGED << pipelineVars, fileKind, password, tempFile, tempGood,
                    excel, props, quit_raised >>

\* except Exception as e: return False
BridgeExcept ==
    /\ pc = "b_except"
    /\ bridge_ret' = "False"
    /\ pc' = "b_finally"
    /\ UNCHANGED << pipelineVars, fileKind, password, tempFile, tempGood,
                    excel, workbook, props, quit_raised >>

\* the finally block, after which the function has returned
BridgeFinally ==
    /\ pc = "b_finally"
    /\ \E quits \in BOOLEAN :
          /\ excel' = Finally(excel, quits).excel
          /\ quit_raised' = Finally(excel, quits).quit_raised
    /\ pc' = "b_done"
    /\ UNCHANGED << pipelineVars, fileKind, password, tempFile, tempGood,
                    workbook, props, bridge_ret >>

BridgeNext ==
    \/ ClearComCache
    \/ Dispatch
    \/ SetProperties
    \/ OpenWorkbook
    \/ CheckWorkbook
    \/ SaveAs
    \/ CloseWorkbook
    \/ BridgeExcept
    \/ BridgeFinally

SpecBridge == BridgeInit /\ [][BridgeNext]_vars

----------------------------------------------------------------------------
(* Properties *)

\* the last run of process_excel ended on a failure path
RunFailed == pc = "return" \/ (pc = "idle" /\ runs > 0)

\* read_excel_file has handed control back to process_excel
LoaderReturned == loaderOutcome \in {"df", "None"}

\* the DataFrame has been sorted and is the one given to export_to_excel
AtExport ==
    pc \in {"export_open", "export_write", "export_close", "finish", "closed"}

ExportColumns ==
    << "Expiration Date", "Insured Name", "Carrier", "Lines Of Business",
       "Status", "Premium", "Renewal Premium", "Percentage Change",
       "State", "Contacted VIA", "Notes Filed", "Completed By" >>

DataRows(sh) == {p[1] : p \in DOMAIN sh} \ {0}

\* C1: fail closed.  After a run of process_excel that failed in any stage
\* no output file exists, and a complete output file exists only once
\* loading, validation, transformation and export have all succeeded.
C1_FailClosed ==
    /\ RunFailed => outFile = "absent"
    /\ outFile = "complete" => pc \in {"finish", "closed"}

\* C2 as claimed: read_excel_file reports failure only after the decryption
\* library and then the automation bridge (open_protected_excel) were tried.
C2_BridgeTriedBeforeFailure ==
    loaderOutcome = "None" =>
        \E i, j \in 1..Len(attempts) :
            i < j /\ attempts[i] = "msoffcrypto" /\ attempts[j] = "bridge"

\* C2 as amended: read_excel_file tries the direct read first exactly when
\* no passphrase is supplied.  When the direct read fails or a passphrase is
\* supplied it builds temp_file_path from TEMP: with TEMP unset that raises
\* out of read_excel_file and no decryption is attempted; with TEMP set it
\* attempts the decryption library and returns the failure value as soon as
\* that attempt has failed.  The automation bridge is never tried.
C2_LoaderOrder ==
    loaderOutcome \in {"df", "None", "raised"} =>
        /\ "bridge" \notin Range(attempts)
        /\ password = NoPassword =>
              attempts \in {<< "direct" >>, << "direct", "msoffcrypto" >>}
        /\ password # NoPassword => attempts \in {<< >>, << "msoffcrypto" >>}
        /\ (password # NoPassword \/ ~DirectReadable(fileKind)) =>
              ("msoffcrypto" \in Range(attempts)) = tempSet
        /\ loaderOutcome = "None" =>
              attempts[Len(attempts)] = "msoffcrypto"
        /\ loaderOutcome = "raised" =>
              ~tempSet /\ "msoffcrypto" \notin Range(attempts)

C2_Witness ==
    /\ loaderOutcome = "None"
    /\ attempts = << "direct", "msoffcrypto" >>
    /\ fileKind = "encrypted"

\* C3: no exception escapes read_excel_file, whatever the file, the
\* passphrase and the environment (TEMP unset included).
C3_LoaderNeverRaises == loaderOutcome # "raised"

\* C4 as claimed: once read_excel_file has returned or raised, the file at
\* temp_file_path does not exist.
C4_TempFileGone ==
    loaderOutcome \in {"df", "None", "raised"} => ~tempFile

\* C4 as amended: once a call of read_excel_file that went as far as the
\* msoffcrypto block (and so through its finally block) has returned, the
\* file at temp_file_path exists only if os.remove raised in that finally
\* block, and then the 'Could not remove temporary file' warning was
\* logged.  A call that returns from the direct read, or raises at line 128,
\* has no temp_file_path and removes nothing.
C4_TempFileGoneUnlessRemoveFailed ==
    (loaderOutcome \in {"df", "None", "raised"}
        /\ "msoffcrypto" \in Range(attempts))
    => (tempFile => warned)

C4_Witness ==
    /\ loaderOutcome = "df"
    /\ attempts = << "msoffcrypto" >>
    /\ tempGood
    /\ ~tempFile
    /\ ~warned

\* C5: the values read_excel_file returns for a missing file, a wrong
\* passphrase and a corrupt format differ pairwise.
C5_CausesDistinguishable ==
    \A a, b \in results :
        (/\ a[1] \in {"missing file", "wrong passphrase", "corrupt format"}
         /\ b[1] \in {"missing file", "wrong passphrase", "corrupt format"}
         /\ a[1] # b[1]
         /\ a[2] # "raised"
         /\ b[2] # "raised")
        => a[2] # b[2]

\* C6: no exception leaves process_excel; after any failure the progress
\* is 0 and the window is still open, so Process can be pressed again; the
\* window is destroyed only after export_to_excel returned True and the
\* progress reached 100.
C6_FailureReturnsToIdle ==
    /\ ~escaped
    /\ RunFailed => progress = 0 /\ window = "open"
    /\ window = "destroyed" => outFile = "complete" /\ progress = 100

C6_Witness ==
    /\ RunFailed
    /\ loaderOutcome = "raised"
    /\ progress = 0
    /\ window = "open"

\* C7 as claimed: check_required_columns returns success exactly when every
\* required name is a column, and otherwise returns failure together with
\* the list of the required names that are absent.
C7_ReturnsMissingList ==
    check_ret # << >> =>
        /\ check_ret[1] = (Range(required_columns) \subseteq Range(source.cols))
        /\ ~check_ret[1] =>
              /\ Len(check_ret) = 2
              /\ Range(check_ret[2]) =
                    Range(required_columns) \ Range(source.cols)

\* C7 as amended: check_required_columns returns one value, True exactly
\* when every required name is a column (exact match) and False otherwise;
\* the list of missing names is logged, not returned, and holds exactly the
\* required names that are absent.
C7_ValidatorVerdict ==
    check_ret # << >> =>
        /\ Len(check_ret) = 1
        /\ check_ret[1] = (Range(required_columns) \subseteq Range(source.cols))
        /\ Range(missing_logged) = Range(required_columns) \ Range(source.cols)
        /\ Len(missing_logged) = Cardinality(Range(missing_logged))

\* two required names are absent ("carrier" is no match for "Carrier")
C7_Witness ==
    /\ check_ret = << FALSE >>
    /\ missing_logged = << "Carrier", "Status" >>
    /\ "carrier" \in Range(source.cols)
    /\ RunFailed
    /\ outFile = "absent"

\* C8: the DataFrame given to export_to_excel is in non-decreasing order of
\* Expiration Date, and rows with equal Expiration Date are in the order
\* they had in the source file.
C8_StableAscendingSort ==
    AtExport =>
        \A i, j \in 1..Len(df.rows) :
            i < j =>
               /\ Rank(DateOf(df, i)) <= Rank(DateOf(df, j))
               /\ DateOf(df, i) = DateOf(df, j) =>
                     df.rows[i].idx < df.rows[j].idx

\* C9: every exported worksheet has exactly the twelve columns of
\* ExportColumns, in that order, and every cell of State, Contacted VIA,
\* Notes Filed and Completed By is the empty string after all write passes.
C9_ExportedColumns ==
    outFile = "complete" =>
        /\ DOMAIN sheet = (0..Len(df.rows)) \X (1..Len(ExportColumns))
        /\ \A c \in 1..Len(ExportColumns) : sheet[<< 0, c >>] = ExportColumns[c]
        /\ \A r \in 1..Len(df.rows) : \A c \in 9..12 : sheet[<< r, c >>] = ""

C9_Witness ==
    /\ outFile = "complete"
    /\ Len(df.rows) = 2
    /\ "State" \in Range(source.cols)
    /\ sheet[<< 1, 9 >>] = ""
    /\ sheet[<< 2, 11 >>] = ""

\* C10: for every plain workbook that holds all required columns a run of
\* process_excel produces an output with one data row per source row:
\* read_excel_file hands the workbook over, the export does not raise on
\* what the workbook holds, and the rows written are the source rows, each
\* exactly once.
C10_RowCountPreserved ==
    /\ (LoaderReturned /\ fileKind = "plain") => loaderOutcome = "df"
    /\ (pc = "export_write" /\ fileKind = "plain"
            /\ check_required_columns(source, required_columns))
       => ~WriteRaises(df)
    /\ (outFile = "complete" /\ fileKind = "plain") =>
          /\ Cardinality(DataRows(sheet)) = Len(source.rows)
          /\ Len(df.rows) = Len(source.rows)
          /\ {df.rows[r].idx : r \in 1..Len(df.rows)} = 1..Len(source.rows)

\* C11 as claimed: once open_protected_excel has returned or raised, the
\* Excel it started is no longer running.
C11_ExcelTerminated == pc = "b_done" => excel # "running"

\* C11 as amended: once open_protected_excel has returned or raised, the
\* Excel it started has been told to quit, and is still running only if
\* excel.Quit() itself raised in the finally block.
C11_ExcelQuitUnlessQuitRaised ==
    pc = "b_done" =>
        /\ excel = "running" => quit_raised
        /\ bridge_ret = "raised" => excel = "None"

\* an exception in the middle of the open/save/close sequence: the workbook
\* is still open, the result is False, Excel has quit
C11_Witness ==
    /\ pc = "b_done"
    /\ bridge_ret = "False"
    /\ workbook = "open"
    /\ excel = "quit"
    /\ ~quit_raised

====
